---- MODULE Spec2Model ----
(***************************************************************************)
(* Model of src/src/agent.py: the per-session JobSeekerData record, the    *)
(* function tools that write it, and InterviewPrepAgent.on_enter, which    *)
(* starts the timer and renders the record into the chat context.          *)
(*                                                                         *)
(* Python strings are TLA+ strings; TLC evaluates Len, \o and SubSeq on    *)
(* them, so strip(), lower() and join() are computed character by          *)
(* character.  Optional[...] fields hold None or Some(v).                  *)
(***************************************************************************)
EXTENDS Integers, Sequences, FiniteSets, TLC

(***************************************************************************)
(* Bounds of the model.                                                    *)
(***************************************************************************)
\* Tool calls made in one session.
MaxCalls == 3
\* Largest reading of time.time(), in seconds; the session starts at 1.
MaxClock == 3
\* Seconds that may pass between the two clock reads of on_enter.
MaxEnterDelay == 1

(***************************************************************************)
(* Python values.                                                          *)
(***************************************************************************)
None == [some |-> FALSE]
Some(v) == [some |-> TRUE, val |-> v]

\* bool(x) of an Optional[str]: None and "" are falsy.
TruthyStr(x) == x.some /\ x.val # ""
\* bool(x) of an Optional[float]: None and 0.0 are falsy.
TruthyNum(x) == x.some /\ x.val # 0

Whitespace == {" ", "\t", "\n", "\r", "\f"}
UpperCase == "ABCDEFGHIJKLMNOPQRSTUVWXYZ"
LowerCase == "abcdefghijklmnopqrstuvwxyz"

CharAt(s, i) == SubSeq(s, i, i)

\* The lowercase letter of each uppercase letter.
UpperToLower ==
    [c \in { CharAt(UpperCase, i) : i \in 1..Len(UpperCase) } |->
       CharAt(LowerCase, CHOOSE i \in 1..Len(UpperCase) : CharAt(UpperCase, i) = c)]

LowerChar(c) ==
    IF c \in DOMAIN UpperToLower THEN UpperToLower[c] ELSE c

RECURSIVE Lower(_)
\* str.lower()
Lower(s) ==
    IF Len(s) = 0 THEN ""
    ELSE LowerChar(CharAt(s, 1)) \o Lower(SubSeq(s, 2, Len(s)))

RECURSIVE LStrip(_)
LStrip(s) ==
    IF Len(s) > 0 /\ CharAt(s, 1) \in Whitespace
    THEN LStrip(SubSeq(s, 2, Len(s)))
    ELSE s

RECURSIVE RStrip(_)
RStrip(s) ==
    IF Len(s) > 0 /\ CharAt(s, Len(s)) \in Whitespace
    THEN RStrip(SubSeq(s, 1, Len(s) - 1))
    ELSE s

\* str.strip()
Strip(s) == RStrip(LStrip(s))

RECURSIVE Join(_, _)
\* sep.join(list)
Join(sep, list) ==
    IF Len(list) = 0 THEN ""
    ELSE IF Len(list) = 1 THEN list[1]
    ELSE list[1] \o sep \o Join(sep, Tail(list))

(***************************************************************************)
(* JobSeekerData                                                           *)
(***************************************************************************)
\* The stage order documented beside current_stage.
StageOrder ==
    << "greeting", "info_collection", "concept_explanation", "skill_assessment",
       "practice_intro", "final_qna", "wrap_up" >>

StageIndex(stage) == CHOOSE i \in 1..Len(StageOrder) : StageOrder[i] = stage

\* The dict literal of get_job_specific_skills.
job_skills ==
    [k \in {"delivery agent", "plumber", "electrician", "mechanic",
            "healthcare worker", "it support"} |->
       CASE k = "delivery agent" ->
              <<"punctuality", "customer service", "navigation", "phone handling", "vehicle safety">>
         [] k = "plumber" ->
              <<"pipe fitting", "leak detection", "tool usage", "customer communication", "emergency handling">>
         [] k = "electrician" ->
              <<"wiring", "safety protocols", "multimeter usage", "troubleshooting", "electrical codes">>
         [] k = "mechanic" ->
              <<"engine diagnosis", "tool handling", "problem solving", "customer explanation", "safety practices">>
         [] k = "healthcare worker" ->
              <<"patient care", "hygiene", "empathy", "following protocols", "emergency response">>
         [] k = "it support" ->
              <<"computer basics", "troubleshooting", "customer patience", "problem solving", "technical communication">>]

GenericSkills ==
    <<"communication", "punctuality", "problem solving", "teamwork", "reliability">>

VARIABLES
    name, age, location, job_interest,       \* Optional[str]
    languages, skills, challenges,           \* List[str]
    current_stage,                           \* str
    conversation_start_time,                 \* Optional[float], in seconds
    notes, skill_responses,                  \* List[str]
    practice_intro_done,                     \* bool
    pc,                                      \* "created" until on_enter has run
    clock,                                   \* the latest reading of time.time()
    context_msg,                             \* the status block on_enter rendered
    reply,                                   \* the string the last tool returned
    calls                                    \* the tool calls made, in order

vars == << name, age, location, job_interest, languages, skills, challenges,
           current_stage, conversation_start_time, notes, skill_responses,
           practice_intro_done, pc, clock, context_msg, reply, calls >>

\* get_job_specific_skills looking job_interest up as stored, without lower().
get_job_specific_skills_exact(job) ==
    IF TruthyStr(job) /\ job.val \in DOMAIN job_skills
    THEN job_skills[job.val]
    ELSE GenericSkills

\* JobSeekerData.get_job_specific_skills
get_job_specific_skills(job) ==
    IF TruthyStr(job) /\ Lower(job.val) \in DOMAIN job_skills
    THEN job_skills[Lower(job.val)]
    ELSE GenericSkills

\* JobSeekerData.is_basic_info_complete
is_basic_info_complete ==
    TruthyStr(name) /\ TruthyStr(age) /\ TruthyStr(location) /\ TruthyStr(job_interest)

(***************************************************************************)
(* Inputs the language model may pass to the tools.                        *)
(***************************************************************************)
Names == {" Asha "}
Ages == {"25 "}
Locations == {" Pune, Maharashtra"}
Jobs == {"Electrician", " it support ", "delivery_agent", ""}
LanguageLists == {<<"Hindi", "English">>}
SkillLists == {<<"wiring">>, <<"driving", "wiring">>}
ChallengeLists == {<<"no resume">>, <<"shy", "no resume">>}
Responses == {"I switch off the mains first"}
Notes == {"needs confidence"}

(***************************************************************************)
(* entrypoint: userdata = JobSeekerData(); session.start(agent) then runs  *)
(* on_enter, and the tools run only in replies generated after it.         *)
(***************************************************************************)
Init ==
    /\ name = None
    /\ age = None
    /\ location = None
    /\ job_interest = None
    /\ languages = <<>>
    /\ skills = <<>>
    /\ challenges = <<>>
    /\ current_stage = "greeting"
    /\ conversation_start_time = None
    /\ notes = <<>>
    /\ skill_responses = <<>>
    /\ practice_intro_done = FALSE
    /\ pc = "created"
    /\ clock = 1
    /\ context_msg = None
    /\ reply = None
    /\ calls = <<>>

\* The elapsed time rendered without the division by 60.
FormatMinutes_seconds(sec) ==
    ToString(sec) \o ".0"

\* f"{elapsed_time:.1f}" of elapsed_time = sec / 60: tenths of a minute, rounded
\* (exact for the elapsed times below nine seconds that the model reaches).
FormatMinutes(sec) ==
    LET tenths == (sec + 3) \div 6
    IN  ToString(tenths \div 10) \o "." \o ToString(tenths % 10)

\* The values on_enter interpolates into context_msg, one field per line of
\* the status block.
StatusBlock(elapsed_sec) ==
    [ stage |-> current_stage,
      elapsed |-> FormatMinutes(elapsed_sec),
      name |-> IF TruthyStr(name) THEN name.val ELSE "Not provided",
      age |-> IF TruthyStr(age) THEN age.val ELSE "Not provided",
      location |-> IF TruthyStr(location) THEN location.val ELSE "Not provided",
      job_interest |-> IF TruthyStr(job_interest) THEN job_interest.val ELSE "Not provided",
      languages |-> IF Len(languages) > 0 THEN Join(", ", languages) ELSE "Not provided",
      skills |-> IF Len(skills) > 0 THEN Join(", ", skills) ELSE "None yet",
      challenges |-> IF Len(challenges) > 0 THEN Join(", ", challenges) ELSE "None mentioned",
      skill_responses |-> ToString(Len(skill_responses)),
      practice_intro_done |-> IF practice_intro_done THEN "True" ELSE "False",
      job_specific_skills |-> Join(", ", get_job_specific_skills(job_interest)),
      notes |-> IF Len(notes) > 0 THEN Join("; ", notes) ELSE "None" ]

\* InterviewPrepAgent.on_enter
on_enter ==
    /\ pc = "created"
    /\ \E t2 \in {t \in clock..MaxClock : t - clock <= MaxEnterDelay} :
         LET start == IF conversation_start_time = None
                      THEN Some(clock)
                      ELSE conversation_start_time
             elapsed_sec == IF TruthyNum(start) THEN t2 - start.val ELSE 0
         IN  /\ conversation_start_time' = start
             /\ context_msg' = Some(StatusBlock(elapsed_sec))
             /\ clock' = t2
    /\ pc' = "running"
    /\ UNCHANGED << name, age, location, job_interest, languages, skills,
                    challenges, current_stage, notes, skill_responses,
                    practice_intro_done, reply, calls >>

\* The runtime dispatching one tool call of the language model: the call is
\* made, and the tool's return string is handed back.
ToolCall(op, arg, ret) ==
    /\ pc = "running"
    /\ Len(calls) < MaxCalls
    /\ calls' = Append(calls, [op |-> op, arg |-> arg])
    /\ reply' = Some(ret)
    /\ UNCHANGED << pc, context_msg >>

update_name(name_in) ==
    /\ ToolCall("update_name", name_in, "Got it, your name is " \o name_in)
    /\ name' = Some(Strip(name_in))
    /\ UNCHANGED << age, location, job_interest, languages, skills, challenges,
                    current_stage, conversation_start_time, notes,
                    skill_responses, practice_intro_done, clock >>

update_age(age_in) ==
    /\ ToolCall("update_age", age_in, "Your age is " \o age_in)
    /\ age' = Some(Strip(age_in))
    /\ UNCHANGED << name, location, job_interest, languages, skills, challenges,
                    current_stage, conversation_start_time, notes,
                    skill_responses, practice_intro_done, clock >>

update_location(location_in) ==
    /\ ToolCall("update_location", location_in, "You are from " \o location_in)
    /\ location' = Some(Strip(location_in))
    /\ UNCHANGED << name, age, job_interest, languages, skills, challenges,
                    current_stage, conversation_start_time, notes,
                    skill_responses, practice_intro_done, clock >>

\* update_job_interest keeping a job interest that is already set.
update_job_interest_keep_first(job) ==
    /\ ToolCall("update_job_interest", job, "You are looking for " \o job \o " job")
    /\ job_interest' = IF job_interest = None THEN Some(Strip(job)) ELSE job_interest
    /\ UNCHANGED << name, age, location, languages, skills, challenges,
                    current_stage, conversation_start_time, notes,
                    skill_responses, practice_intro_done, clock >>

update_job_interest(job) ==
    /\ ToolCall("update_job_interest", job, "You are looking for " \o job \o " job")
    /\ job_interest' = Some(Strip(job))
    /\ UNCHANGED << name, age, location, languages, skills, challenges,
                    current_stage, conversation_start_time, notes,
                    skill_responses, practice_intro_done, clock >>

\* update_skills assigning the list, as update_languages does, instead of extending it.
update_skills_overwrite(skills_in) ==
    /\ ToolCall("update_skills", skills_in, "Got it, you know " \o Join(", ", skills_in))
    /\ skills' = skills_in
    /\ UNCHANGED << name, age, location, job_interest, languages, challenges,
                    current_stage, conversation_start_time, notes,
                    skill_responses, practice_intro_done, clock >>

update_skills(skills_in) ==
    /\ ToolCall("update_skills", skills_in, "Got it, you know " \o Join(", ", skills_in))
    /\ skills' = skills \o skills_in
    /\ UNCHANGED << name, age, location, job_interest, languages, challenges,
                    current_stage, conversation_start_time, notes,
                    skill_responses, practice_intro_done, clock >>

update_challenges(challenges_in) ==
    /\ ToolCall("update_challenges", challenges_in, "I understand the challenges you are facing")
    /\ challenges' = challenges \o challenges_in
    /\ UNCHANGED << name, age, location, job_interest, languages, skills,
                    current_stage, conversation_start_time, notes,
                    skill_responses, practice_intro_done, clock >>

record_skill_response(response) ==
    /\ ToolCall("record_skill_response", response, "I have noted your response")
    /\ skill_responses' = Append(skill_responses, response)
    /\ UNCHANGED << name, age, location, job_interest, languages, skills,
                    challenges, current_stage, conversation_start_time, notes,
                    practice_intro_done, clock >>

\* move_to_concept_explanation naming the stage before the one it is for.
move_to_concept_explanation_info ==
    /\ ToolCall("move_to_concept_explanation", <<>>, "Moving to explain interview concepts")
    /\ current_stage' = "info_collection"
    /\ UNCHANGED << name, age, location, job_interest, languages, skills,
                    challenges, conversation_start_time, notes,
                    skill_responses, practice_intro_done, clock >>

move_to_concept_explanation ==
    /\ ToolCall("move_to_concept_explanation", <<>>, "Moving to explain interview concepts")
    /\ current_stage' = "concept_explanation"
    /\ UNCHANGED << name, age, location, job_interest, languages, skills,
                    challenges, conversation_start_time, notes,
                    skill_responses, practice_intro_done, clock >>

move_to_skill_assessment ==
    /\ ToolCall("move_to_skill_assessment", <<>>, "Starting skill assessment")
    /\ current_stage' = "skill_assessment"
    /\ UNCHANGED << name, age, location, job_interest, languages, skills,
                    challenges, conversation_start_time, notes,
                    skill_responses, practice_intro_done, clock >>

move_to_practice_intro ==
    /\ ToolCall("move_to_practice_intro", <<>>, "Moving to practice introduction")
    /\ current_stage' = "practice_intro"
    /\ UNCHANGED << name, age, location, job_interest, languages, skills,
                    challenges, conversation_start_time, notes,
                    skill_responses, practice_intro_done, clock >>

move_to_final_qna ==
    /\ ToolCall("move_to_final_qna", <<>>, "Moving to final questions")
    /\ current_stage' = "final_qna"
    /\ UNCHANGED << name, age, location, job_interest, languages, skills,
                    challenges, conversation_start_time, notes,
                    skill_responses, practice_intro_done, clock >>

move_to_wrap_up ==
    /\ ToolCall("move_to_wrap_up", <<>>, "Moving to final feedback and wrap up")
    /\ current_stage' = "wrap_up"
    /\ UNCHANGED << name, age, location, job_interest, languages, skills,
                    challenges, conversation_start_time, notes,
                    skill_responses, practice_intro_done, clock >>

\* mark_practice_intro_done flipping the flag instead of setting it.
mark_practice_intro_done_toggle ==
    /\ ToolCall("mark_practice_intro_done", <<>>, "Practice introduction completed")
    /\ practice_intro_done' = ~practice_intro_done
    /\ UNCHANGED << name, age, location, job_interest, languages, skills,
                    challenges, current_stage, conversation_start_time, notes,
                    skill_responses, clock >>

\* mark_practice_intro_done moving the stage on as well as setting the flag.
mark_practice_intro_done_advancing ==
    /\ ToolCall("mark_practice_intro_done", <<>>, "Practice introduction completed")
    /\ practice_intro_done' = TRUE
    /\ current_stage' = "final_qna"
    /\ UNCHANGED << name, age, location, job_interest, languages, skills,
                    challenges, conversation_start_time, notes,
                    skill_responses, clock >>

mark_practice_intro_done ==
    /\ ToolCall("mark_practice_intro_done", <<>>, "Practice introduction completed")
    /\ practice_intro_done' = TRUE
    /\ UNCHANGED << name, age, location, job_interest, languages, skills,
                    challenges, current_stage, conversation_start_time, notes,
                    skill_responses, clock >>

\* time.time() returns the clock, which has not gone back since it was last read.
start_conversation_timer ==
    /\ ToolCall("start_conversation_timer", <<>>, "Timer started")
    /\ \E t \in clock..MaxClock :
         /\ clock' = t
         /\ conversation_start_time' = Some(t)
    /\ UNCHANGED << name, age, location, job_interest, languages, skills,
                    challenges, current_stage, notes, skill_responses,
                    practice_intro_done >>

\* update_languages extending the list, as update_skills does, instead of assigning it.
update_languages_extend(languages_in) ==
    /\ ToolCall("update_languages", languages_in, "You speak " \o Join(", ", languages_in))
    /\ languages' = languages \o languages_in
    /\ UNCHANGED << name, age, location, job_interest, skills, challenges,
                    current_stage, conversation_start_time, notes,
                    skill_responses, practice_intro_done, clock >>

update_languages(languages_in) ==
    /\ ToolCall("update_languages", languages_in, "You speak " \o Join(", ", languages_in))
    /\ languages' = languages_in
    /\ UNCHANGED << name, age, location, job_interest, skills, challenges,
                    current_stage, conversation_start_time, notes,
                    skill_responses, practice_intro_done, clock >>

\* Defined as a function tool, but not in the tools list of InterviewPrepAgent.
move_to_setup_phase ==
    /\ ToolCall("move_to_setup_phase", <<>>, "Moving to interview preparation concepts")
    /\ current_stage' = "concept_explanation"
    /\ UNCHANGED << name, age, location, job_interest, languages, skills,
                    challenges, conversation_start_time, notes,
                    skill_responses, practice_intro_done, clock >>

\* Defined as a function tool, but not in the tools list of InterviewPrepAgent.
move_to_practice_phase ==
    /\ ToolCall("move_to_practice_phase", <<>>, "Starting interview practice")
    /\ current_stage' = "practice_intro"
    /\ UNCHANGED << name, age, location, job_interest, languages, skills,
                    challenges, conversation_start_time, notes,
                    skill_responses, practice_intro_done, clock >>

add_note(note) ==
    /\ ToolCall("add_note", note, "Note added")
    /\ notes' = Append(notes, note)
    /\ UNCHANGED << name, age, location, job_interest, languages, skills,
                    challenges, current_stage, conversation_start_time,
                    skill_responses, practice_intro_done, clock >>

(***************************************************************************)
(* The session: on_enter, then the tools registered with the agent.        *)
(***************************************************************************)
Next ==
    \/ on_enter
    \/ \E n \in Names : update_name(n)
    \/ \E a \in Ages : update_age(a)
    \/ \E l \in Locations : update_location(l)
    \/ \E j \in Jobs : update_job_interest(j)
    \/ \E ls \in LanguageLists : update_languages(ls)
    \/ \E ss \in SkillLists : update_skills(ss)
    \/ \E cs \in ChallengeLists : update_challenges(cs)
    \/ \E r \in Responses : record_skill_response(r)
    \/ move_to_concept_explanation
    \/ move_to_skill_assessment
    \/ move_to_practice_intro
    \/ move_to_final_qna
    \/ move_to_wrap_up
    \/ mark_practice_intro_done
    \/ start_conversation_timer
    \/ \E n \in Notes : add_note(n)

Spec == Init /\ [][Next]_vars

(***************************************************************************)
(* Every function tool the module defines applied to the profile, the two  *)
(* that the agent does not register included.                              *)
(***************************************************************************)
NextAllTools ==
    \/ Next
    \/ move_to_setup_phase
    \/ move_to_practice_phase

SpecAllTools == Init /\ [][NextAllTools]_vars

(***************************************************************************)
(* Reading the call history.                                               *)
(***************************************************************************)
\* The arguments of the calls of tool op, in call order.
ArgsOf(op) ==
    LET made == SelectSeq(calls, LAMBDA c : c.op = op)
    IN  [i \in 1..Len(made) |-> made[i].arg]

RECURSIVE Flatten(_)
\* The concatenation of a sequence of lists.
Flatten(lists) ==
    IF Len(lists) = 0 THEN <<>>
    ELSE Head(lists) \o Flatten(Tail(lists))

Called(op) == Len(ArgsOf(op)) > 0

LastArg(op) == ArgsOf(op)[Len(ArgsOf(op))]

LastOp == calls[Len(calls)].op

\* s is t without its leading and trailing whitespace: t is whitespace, s,
\* whitespace, and s neither starts nor ends with whitespace.
IsStripOf(s, t) ==
    /\ \E i \in 1..(Len(t) + 1) :
         /\ SubSeq(t, i, i + Len(s) - 1) = s
         /\ \A k \in 1..(i - 1) : CharAt(t, k) \in Whitespace
         /\ \A k \in (i + Len(s))..Len(t) : CharAt(t, k) \in Whitespace
    /\ Len(s) > 0 => /\ CharAt(s, 1) \notin Whitespace
                     /\ CharAt(s, Len(s)) \notin Whitespace

\* v is the lowercase key k up to letter case.
EqualsIgnoringCase(v, k) ==
    /\ Len(v) = Len(k)
    /\ \A i \in 1..Len(k) :
         \/ CharAt(v, i) = CharAt(k, i)
         \/ /\ CharAt(v, i) \in DOMAIN UpperToLower
            /\ UpperToLower[CharAt(v, i)] = CharAt(k, i)

(***************************************************************************)
(* C1.  The claim: no step takes current_stage to a stage earlier, in the  *)
(* order greeting < info_collection < concept_explanation <                *)
(* skill_assessment < practice_intro < final_qna < wrap_up, than the one   *)
(* it held before the step.  The move_to_* tools assign unconditionally,   *)
(* so the code breaks it.                                                  *)
(***************************************************************************)
C1_StageOnlyMovesForward ==
    [][StageIndex(current_stage') >= StageIndex(current_stage)]_vars

(***************************************************************************)
(* C2.  The claim: once conversation_start_time holds a timestamp, no      *)
(* later step changes it.  start_conversation_timer assigns time.time()    *)
(* whatever the field holds, so the code breaks it.                        *)
(***************************************************************************)
C2_StartTimeSetAtMostOnce ==
    [][conversation_start_time # None
         => conversation_start_time' = conversation_start_time]_vars

(***************************************************************************)
(* C3.  skills is the concatenation, in call order, of the arguments of    *)
(* the update_skills calls made so far, and challenges that of the         *)
(* update_challenges calls; duplicates stay, and no other call changes     *)
(* either list.                                                            *)
(***************************************************************************)
C3_SkillsAndChallengesAreConcatenations ==
    /\ skills = Flatten(ArgsOf("update_skills"))
    /\ challenges = Flatten(ArgsOf("update_challenges"))

\* Two update_skills calls whose lists share an element, then a call of
\* another tool: the duplicate and the order are kept.
C3_Witness ==
    /\ Len(calls) = 3
    /\ ArgsOf("update_skills") = << <<"driving", "wiring">>, <<"wiring">> >>
    /\ LastOp = "update_challenges"
    /\ skills = <<"driving", "wiring", "wiring">>
    /\ challenges = <<"shy", "no resume">>

(***************************************************************************)
(* C4 as stated: the reported job-specific skill list is the table entry   *)
(* whose key is the current job_interest when the table has that key, and  *)
(* the generic list otherwise.  It fails for a job_interest such as        *)
(* "Electrician", which is no key of the table and still gets the          *)
(* electrician entry.                                                      *)
(***************************************************************************)
C4_JobSkillsByStoredKey ==
    get_job_specific_skills(job_interest) =
        IF job_interest # None /\ job_interest.val \in DOMAIN job_skills
        THEN job_skills[job_interest.val]
        ELSE GenericSkills

(***************************************************************************)
(* C4 as amended: the reported job-specific skill list is decided by the   *)
(* latest update_job_interest call alone: it is the table entry whose key  *)
(* equals that call's argument, stripped of surrounding whitespace and     *)
(* compared without regard to letter case, and the generic list            *)
(* [communication, punctuality, problem solving, teamwork, reliability]    *)
(* when there is no such key or no call has been made.                     *)
(***************************************************************************)
C4_JobSkillsFollowLatestJobInterest ==
    LET reported == get_job_specific_skills(job_interest)
    IN  IF ~Called("update_job_interest")
        THEN job_interest = None /\ reported = GenericSkills
        ELSE /\ job_interest # None
             /\ IsStripOf(job_interest.val, LastArg("update_job_interest"))
             /\ LET keys == { k \in DOMAIN job_skills :
                                EqualsIgnoringCase(job_interest.val, k) }
                IN  IF keys # {}
                    THEN \A k \in keys : reported = job_skills[k]
                    ELSE reported =
                           <<"communication", "punctuality", "problem solving",
                             "teamwork", "reliability">>

\* The job interest was first one the table does not have and then, by a
\* second call, "Electrician": the list reported is the electrician one.
C4_Witness ==
    /\ ArgsOf("update_job_interest") = <<"delivery_agent", "Electrician">>
    /\ get_job_specific_skills(job_interest) = job_skills["electrician"]

(***************************************************************************)
(* C5 as stated: after update_job_interest("Electrician") the stored job   *)
(* is the normalized "electrician" and the job skills are exactly Circuit  *)
(* analysis, Safety protocols, Tool usage, Problem diagnosis.              *)
(***************************************************************************)
C5_ElectricianNormalizedWithSpecSkills ==
    (Called("update_job_interest") /\ LastArg("update_job_interest") = "Electrician")
      => /\ job_interest = Some("electrician")
         /\ { get_job_specific_skills(job_interest)[i] :
                i \in 1..Len(get_job_specific_skills(job_interest)) }
              = { "Circuit analysis", "Safety protocols", "Tool usage",
                  "Problem diagnosis" }

(***************************************************************************)
(* C5 as amended: after update_job_interest("Electrician") the stored job  *)
(* is "Electrician", letter case kept, and the job skills are exactly      *)
(* wiring, safety protocols, multimeter usage, troubleshooting,            *)
(* electrical codes, in that order.                                        *)
(***************************************************************************)
C5_ElectricianStoredAsGivenWithTableSkills ==
    (Called("update_job_interest") /\ LastArg("update_job_interest") = "Electrician")
      => /\ job_interest = Some("Electrician")
         /\ get_job_specific_skills(job_interest) =
              <<"wiring", "safety protocols", "multimeter usage",
                "troubleshooting", "electrical codes">>

C5_Witness ==
    /\ Len(calls) > 0
    /\ LastOp = "update_job_interest"
    /\ calls[Len(calls)].arg = "Electrician"
    /\ job_interest = Some("Electrician")

(***************************************************************************)
(* C6.  The claim: once update_name, update_age and update_location have   *)
(* supplied the basic information to a profile in stage greeting, with no  *)
(* stage tool called, current_stage is info_collection.  No tool assigns   *)
(* info_collection, so the code breaks it.                                 *)
(***************************************************************************)
C6_BasicInfoAdvancesStage ==
    ( /\ TruthyStr(name) /\ TruthyStr(age) /\ TruthyStr(location)
      /\ \A i \in 1..Len(calls) :
           calls[i].op \in {"update_name", "update_age", "update_location"} )
      => current_stage = "info_collection"

(***************************************************************************)
(* C7 as stated: the status block rendered for the fresh profile reports   *)
(* name, age, location, job interest, languages, skills, challenges and    *)
(* notes as "Not provided" and the elapsed time as 0.                      *)
(***************************************************************************)
C7_FreshSummaryAllNotProvided ==
    context_msg # None =>
        /\ \A f \in { "name", "age", "location", "job_interest", "languages",
                      "skills", "challenges", "notes" } :
             context_msg.val[f] = "Not provided"
        /\ context_msg.val.elapsed = "0.0"

(***************************************************************************)
(* C7 as amended: the status block rendered for the fresh profile reports  *)
(* name, age, location, job interest and languages as "Not provided",      *)
(* skills as "None yet", challenges as "None mentioned", notes as "None",  *)
(* and the elapsed time as 0.0 minutes (the two clock reads of on_enter    *)
(* being under three seconds apart).                                       *)
(***************************************************************************)
C7_FreshSummaryPlaceholders ==
    context_msg # None =>
        /\ \A f \in { "name", "age", "location", "job_interest", "languages" } :
             context_msg.val[f] = "Not provided"
        /\ context_msg.val.skills = "None yet"
        /\ context_msg.val.challenges = "None mentioned"
        /\ context_msg.val.notes = "None"
        /\ context_msg.val.elapsed = "0.0"

\* on_enter has rendered the fresh profile, a second after it started the timer.
C7_Witness ==
    /\ pc = "running"
    /\ calls = <<>>
    /\ conversation_start_time = Some(1)
    /\ clock = 2
    /\ context_msg # None
    /\ context_msg.val.stage = "greeting"
    /\ context_msg.val.name = "Not provided"

(***************************************************************************)
(* C8.  practice_intro_done is false on a fresh profile and is true        *)
(* exactly when mark_practice_intro_done has been called, whatever calls   *)
(* came after it: repeated marks and stage changes do not clear it.        *)
(***************************************************************************)
C8_PracticeIntroDoneSetOnceNeverCleared ==
    practice_intro_done <=> Called("mark_practice_intro_done")

\* Marked twice, then a stage change: the flag is still set.
C8_Witness ==
    /\ Len(calls) = 3
    /\ calls[1].op = "mark_practice_intro_done"
    /\ calls[2].op = "mark_practice_intro_done"
    /\ calls[3].op = "move_to_wrap_up"
    /\ practice_intro_done

(***************************************************************************)
(* C9 as stated: no operation silently coerces its input, so after         *)
(* update_name, update_age, update_location, update_job_interest or        *)
(* update_languages the field holds exactly the value supplied.            *)
(***************************************************************************)
C9_StoredValueIsSuppliedValue ==
    /\ Called("update_name") => name = Some(LastArg("update_name"))
    /\ Called("update_age") => age = Some(LastArg("update_age"))
    /\ Called("update_location") => location = Some(LastArg("update_location"))
    /\ Called("update_job_interest")
         => job_interest = Some(LastArg("update_job_interest"))
    /\ Called("update_languages") => languages = LastArg("update_languages")

(***************************************************************************)
(* C9 as amended: no update operation rejects a value: each call, the one  *)
(* with an empty string included, returns its confirmation string, which   *)
(* quotes the value as supplied.  update_name, update_age, update_location *)
(* and update_job_interest store the value with its leading and trailing   *)
(* whitespace removed, and update_languages stores the list supplied.      *)
(***************************************************************************)
C9_StoredValueIsStrippedNeverRejected ==
    /\ Called("update_name")
         => name # None /\ IsStripOf(name.val, LastArg("update_name"))
    /\ Called("update_age")
         => age # None /\ IsStripOf(age.val, LastArg("update_age"))
    /\ Called("update_location")
         => location # None /\ IsStripOf(location.val, LastArg("update_location"))
    /\ Called("update_job_interest")
         => /\ job_interest # None
            /\ IsStripOf(job_interest.val, LastArg("update_job_interest"))
    /\ Called("update_languages") => languages = LastArg("update_languages")
    /\ Len(calls) > 0 =>
         /\ reply # None
         /\ LastOp = "update_name"
              => reply.val = "Got it, your name is " \o LastArg("update_name")
         /\ LastOp = "update_age"
              => reply.val = "Your age is " \o LastArg("update_age")
         /\ LastOp = "update_location"
              => reply.val = "You are from " \o LastArg("update_location")
         /\ LastOp = "update_job_interest"
              => reply.val = "You are looking for "
                               \o LastArg("update_job_interest") \o " job"
         /\ LastOp = "update_languages"
              => reply.val = "You speak " \o Join(", ", LastArg("update_languages"))

\* A padded name stored without its padding, and then an empty job interest
\* accepted and confirmed.
C9_Witness ==
    /\ name = Some("Asha")
    /\ LastArg("update_name") = " Asha "
    /\ job_interest = Some("")
    /\ LastOp = "update_job_interest"
    /\ reply = Some("You are looking for  job")

C11_GreetingUntilFirstStageTool ==
    current_stage = "greeting"
      <=> \A i \in 1..Len(calls) :
            calls[i].op \notin
              { "move_to_concept_explanation", "move_to_skill_assessment",
                "move_to_practice_intro", "move_to_final_qna", "move_to_wrap_up",
                "move_to_setup_phase", "move_to_practice_phase" }

\* A field update, then the first stage tool, then the timer restarted: the
\* stage is the one the stage tool set.
C11_Witness ==
    /\ Len(calls) = 3
    /\ calls[1].op = "mark_practice_intro_done"
    /\ calls[2].op = "move_to_setup_phase"
    /\ calls[3].op = "start_conversation_timer"
    /\ current_stage = "concept_explanation"

====
